---- MODULE Spec2Model ----
(***************************************************************************)
(* Stock Availability Tracker (src/main.py).                               *)
(*                                                                         *)
(* The script is one sequential process that is started again and again:   *)
(* it loads previous_out_stock.txt, reads SKUs.txt, probes every line,     *)
(* classifies, rotates out_stock.txt onto previous_out_stock.txt, writes   *)
(* a new out_stock.txt and writes the change report.                       *)
(*                                                                         *)
(* Text is modelled as a sequence of one-character strings, so that        *)
(* strip, split, endswith and the substring test act as they do in Python. *)
(* A file is a record [exists, lines]; a line is the text without its      *)
(* terminating newline.                                                    *)
(***************************************************************************)
EXTENDS Integers, Sequences, FiniteSets, TLC

\* ------------------------------------------------------------------ bounds
\* Longest SKUs.txt, in lines, of the single run of SpecRun, and longest
\* list of out-of-stock items handed to the analysis in SpecEngine.
MaxLines == 3

\* ------------------------------------------------------------------- text
\* The characters that occur, in ascending code point order.
Chars ==
  << "\t", "\n", " ", "(", ")", "-", ".", "/", "0", "2", ":", "=", "?",
     "A", "B", "C", "E", "N", "T", "_", "a", "c", "e", "h", "i", "l", "m", "o",
     "p", "q", "r", "s", "t", "u", "x", "y" >>

Ord(c) == CHOOSE i \in 1..Len(Chars) : Chars[i] = c

\* str.strip() and str.split() with no separator act on whitespace.
Whitespace == {"\t", "\n", " "}

Digits == {"0", "2"}

RECURSIVE lstrip(_)
lstrip(s) ==
  IF s # <<>> /\ Head(s) \in Whitespace THEN lstrip(Tail(s)) ELSE s

RECURSIVE rstrip(_)
rstrip(s) ==
  IF s # <<>> /\ s[Len(s)] \in Whitespace
    THEN rstrip(SubSeq(s, 1, Len(s) - 1))
    ELSE s

strip(s) == rstrip(lstrip(s))

\* Length of the longest prefix of s that has no whitespace in it.
RECURSIVE TokenLen(_)
TokenLen(s) ==
  IF s = <<>> \/ Head(s) \in Whitespace THEN 0 ELSE 1 + TokenLen(Tail(s))

\* line.split(maxsplit=1): the first whitespace-delimited token, and the
\* rest of the line after the whitespace that follows it, when there is any.
split1(line) ==
  LET s == lstrip(line)
      n == TokenLen(s)
      rest == lstrip(SubSeq(s, n + 1, Len(s)))
  IN  IF s = <<>> THEN <<>>
      ELSE IF rest = <<>> THEN << SubSeq(s, 1, n) >>
      ELSE << SubSeq(s, 1, n), rest >>

endswith(s, suffix) ==
  /\ Len(s) >= Len(suffix)
  /\ SubSeq(s, Len(s) - Len(suffix) + 1, Len(s)) = suffix

startswith(s, prefix) ==
  /\ Len(s) >= Len(prefix)
  /\ SubSeq(s, 1, Len(prefix)) = prefix

\* sub in s
contains(s, sub) ==
  \E i \in 1..(Len(s) - Len(sub) + 1) : SubSeq(s, i, i + Len(sub) - 1) = sub

\* s < t for Python strings: lexicographic on code points.
RECURSIVE StrLess(_, _)
StrLess(s, t) ==
  IF t = <<>> THEN FALSE
  ELSE IF s = <<>> THEN TRUE
  ELSE IF Head(s) # Head(t) THEN Ord(Head(s)) < Ord(Head(t))
  ELSE StrLess(Tail(s), Tail(t))

\* val.isdigit() and int(val) > 0, for an <option> value (None is <<"N">>).
isdigit(val) == val # <<>> /\ \A i \in 1..Len(val) : val[i] \in Digits

IntPositive(val) == \E i \in 1..Len(val) : val[i] # "0"

\* ------------------------------------------------------------ configuration
BASE_URL ==
  << "h", "t", "t", "p", "s", ":", "/", "/", "e", "x", "a", "m", "p", "l",
     "e", "-", "s", "t", "o", "r", "e", ".", "c", "o", "m" >>

SearchPath ==
  << "/", "s", "e", "a", "r", "c", "h", ".", "p", "h", "p", "?", "s", "e",
     "a", "r", "c", "h", "_", "q", "u", "e", "r", "y", "=" >>

WRITE_CHANGE_REPORT_FILE == TRUE

NA == << "N", "/", "A" >>

ErrorOpen == << " ", "(", "E", "r", "r", "o", "r", ":", " " >>

ErrorMarker == << "(", "E", "r", "r", "o", "r", ":" >>

CloseParen == << ")" >>

Tab == << "\t" >>

\* ------------------------------------------------------------- environment
\* The lines SKUs.txt can hold, as readlines() returns them.
SkuLines == { << "A", "\n" >>, << "B", ")", "\n" >>, << "\n" >> }

RECURSIVE SeqsUpTo(_, _)
SeqsUpTo(S, n) ==
  IF n = 0 THEN { <<>> }
  ELSE LET shorter == SeqsUpTo(S, n - 1)
       IN  shorter \cup { Append(q, x) : q \in shorter, x \in S }

NoFile == [exists |-> FALSE, lines |-> <<>>]

File(lines) == [exists |-> TRUE, lines |-> lines]

\* SKUs.txt as one run may find it: missing, or any list of these lines.
SkuFiles == { NoFile } \cup { File(l) : l \in SeqsUpTo(SkuLines, MaxLines) }

\* SKUs.txt while one product is tracked: the user may
\* list it, drop it, or remove the file.
TrackedSkuFiles == { NoFile, File(<<>>), File(<< << "A", "\n" >> >>) }

\* type(e).__name__ of the exceptions a request raises.
ErrorKinds == { << "T", "i", "m", "e", "o", "u", "t" >> }

\* href of the first a.product-title of a search page.
Hrefs == { << "/", "p" >> }

\* .ProductQty select of a page: absent, or the values of its options.
QtySelects ==
  { [present |-> FALSE, values |-> <<>>],
    [present |-> TRUE, values |-> << << "0" >> >>],
    [present |-> TRUE, values |-> << <<>>, << "2" >> >>] }

Pages == [links : { <<>> } \cup { << h >> : h \in Hrefs }, qty : QtySelects]

NoPage == [links |-> <<>>, qty |-> [present |-> FALSE, values |-> <<>>]]

\* What requests.get(...) followed by raise_for_status() gives.
Responses ==
  { [ok |-> FALSE, kind |-> k, page |-> NoPage] : k \in ErrorKinds }
    \cup { [ok |-> TRUE, kind |-> <<>>, page |-> p] : p \in Pages }

\* ------------------------------------------------------------------- state
VARIABLES
  pc,                     \* the statement the running script is at
  sku_file,               \* SKU_FILE_PATH
  out_stock,              \* CURRENT_OOS_FILE_PATH
  previous_out_stock,     \* PREVIOUS_OOS_FILE_PATH
  stock_change_report,    \* CHANGE_REPORT_FILE_PATH
  previous_oos_data,      \* {sku: url}
  products_to_check,      \* lines of SKUs.txt
  idx,                    \* position of the probe loop in products_to_check
  current_oos_products,   \* list of {'sku': sku, 'url': url}
  current_instock_skus,   \* set of sku
  analysis_report_lines,  \* lines of the report
  summary,                \* counters of the report
  probe_log,              \* history: [sku, result, kind, url] of each probe of the run
  io,                     \* history: outcome of each file operation of the run
  start,                  \* history: the three files as the run found them
  src_out_stock,          \* history: the observations out_stock was written from
  src_previous,           \* history: the observations previous_out_stock was written from
  last_run                \* history: whether the preceding run completed
                          \* with no failed file operation, and the file it
                          \* had rotated when it was killed

files == << out_stock, previous_out_stock, stock_change_report >>

memory ==
  << previous_oos_data, products_to_check, idx, current_oos_products,
     current_instock_skus, analysis_report_lines, summary >>

history == << probe_log, io, start, src_out_stock, src_previous, last_run >>

vars == << pc, sku_file, files, memory, history >>

EmptyDict == [k \in {} |-> <<>>]

NoSource == [oos |-> {}, err |-> {}]

NoIo == [load |-> "-", rotate |-> "-", write |-> "-", report |-> "-"]

ZeroSummary ==
  [RESTOCKED |-> 0, STILL_OOS |-> 0, NEWLY_OOS |-> 0, ERROR_PREV_OOS |-> 0]

\* The module-level data structures as the interpreter creates them.
FreshMemory ==
  /\ previous_oos_data = EmptyDict
  /\ products_to_check = <<>>
  /\ idx = 1
  /\ current_oos_products = <<>>
  /\ current_instock_skus = {}
  /\ analysis_report_lines = <<>>
  /\ summary = ZeroSummary

\* A fresh installation: no output file yet.
Installed ==
  /\ pc = "load"
  /\ out_stock = NoFile
  /\ previous_out_stock = NoFile
  /\ stock_change_report = NoFile
  /\ FreshMemory
  /\ probe_log = <<>>
  /\ io = NoIo
  /\ start = << NoFile, NoFile, NoFile >>
  /\ src_out_stock = NoSource
  /\ src_previous = NoSource
  /\ last_run = [clean |-> FALSE, moved |-> NoFile]

\* ------------------------------------------- 1. read previous out-of-stock
\* The body of the loop over the lines of the previous file: the dictionary
\* after one more line.
LoadLine(data, raw) ==
  LET line == strip(raw)
      parts == split1(line)
      sku == parts[1]
      url == IF Len(parts) > 1 THEN parts[2] ELSE NA
  IN  IF line = <<>> THEN data
      ELSE IF ~endswith(sku, CloseParen) \/ ~contains(sku, ErrorMarker)
        THEN (sku :> url) @@ data
        ELSE data

RECURSIVE LoadLines(_, _)
LoadLines(data, lines) ==
  IF lines = <<>> THEN data
  ELSE LoadLines(LoadLine(data, Head(lines)), Tail(lines))

\* The file the load step opens.
LoadedFile == previous_out_stock

\* The lines stored when open() or a read raises an exception: some of the
\* first lines, none if the file could not be opened (which can happen
\* whether or not there is a file), all if the read that fails is the one
\* that would have found the end of the file.
ReadBeforeError(lines) ==
  { SubSeq(lines, 1, n) : n \in 0..Len(lines) }

\* The try block of step 1 and its handlers: the file is read whole; it is
\* not there; or open() or a read raises another exception.
LoadPrevious ==
  /\ pc = "load"
  /\ \/ /\ LoadedFile.exists
        /\ previous_oos_data' = LoadLines(EmptyDict, LoadedFile.lines)
        /\ io' = [io EXCEPT !.load = "ok"]
     \/ /\ ~LoadedFile.exists
        /\ previous_oos_data' = previous_oos_data
        /\ io' = [io EXCEPT !.load = "notfound"]
     \/ /\ \E read \in ReadBeforeError(LoadedFile.lines) :
             previous_oos_data' = LoadLines(EmptyDict, read)
        /\ io' = [io EXCEPT !.load = "error"]
  /\ pc' = "read"
  /\ UNCHANGED << sku_file, files, products_to_check, idx, current_oos_products,
                  current_instock_skus, analysis_report_lines, summary,
                  probe_log, start, src_out_stock, src_previous, last_run >>

\* ------------------------------------------------- 2. read the SKUs to check
ReadSkus ==
  /\ pc = "read"
  /\ sku_file.exists
  /\ products_to_check' = sku_file.lines
  /\ pc' = "probe"
  /\ UNCHANGED << sku_file, files, previous_oos_data, idx, current_oos_products,
                  current_instock_skus, analysis_report_lines, summary,
                  history >>

\* Variant: the missing SKUs.txt is noticed only after the rotation.
ReadSkusMissingAfterRotation ==
  /\ pc = "read"
  /\ ~sku_file.exists
  /\ pc' = "exited"
  /\ previous_out_stock' = IF out_stock.exists THEN out_stock ELSE previous_out_stock
  /\ out_stock' = NoFile
  /\ UNCHANGED << sku_file, stock_change_report, memory, history >>

\* SKUs.txt is not there: exit().
ReadSkusMissing ==
  /\ pc = "read"
  /\ ~sku_file.exists
  /\ pc' = "exited"
  /\ UNCHANGED << sku_file, files, memory, history >>

\* open() or readlines() raises an exception other than FileNotFoundError
\* (SKUs.txt or its directory cannot be read): nothing catches it and the
\* script ends there with a traceback.
ReadSkusUnreadable ==
  /\ pc = "read"
  /\ pc' = "crashed"
  /\ UNCHANGED << sku_file, files, memory, history >>

\* ------------------------------------------------------ 3. the checking loop
search_url(sku) == BASE_URL \o SearchPath \o sku

\* product_url once the link of the search page is taken.
LinkUrl(href) ==
  IF startswith(href, << "h", "t", "t", "p" >>) THEN href ELSE BASE_URL \o href

\* any(val and val.isdigit() and int(val) > 0 for val in values)
has_stock(qty) ==
  /\ qty.present
  /\ \E i \in 1..Len(qty.values) :
       LET val == qty.values[i]
       IN  val # <<>> /\ isdigit(val) /\ IntPositive(val)

ErrorSku(sku, kind) == sku \o ErrorOpen \o kind \o CloseParen

\* What one pass of the try block finds for a SKU, given the answer to the
\* search request and the answer to the request for the product page.
\*   result: "IN_STOCK", "OUT_OF_STOCK" or "ERROR"; url: product_url.
ProbeResult(sku, first, second) ==
  IF ~first.ok
    THEN [result |-> "ERROR", kind |-> first.kind, url |-> search_url(sku)]
  ELSE IF first.page.links = <<>>
    THEN [result |-> IF has_stock(first.page.qty)
                       THEN "IN_STOCK" ELSE "OUT_OF_STOCK",
          kind |-> <<>>, url |-> search_url(sku)]
  ELSE IF ~second.ok
    THEN [result |-> "ERROR", kind |-> second.kind,
          url |-> LinkUrl(first.page.links[1])]
  ELSE [result |-> IF has_stock(second.page.qty)
                     THEN "IN_STOCK" ELSE "OUT_OF_STOCK",
        kind |-> <<>>, url |-> LinkUrl(first.page.links[1])]

\* One iteration of the loop over products_to_check.
Probe ==
  /\ pc = "probe"
  /\ idx <= Len(products_to_check)
  /\ LET sku == strip(products_to_check[idx])
     IN  IF sku = <<>>
           THEN UNCHANGED << current_oos_products, current_instock_skus,
                             probe_log >>
           ELSE \E first \in Responses, second \in Responses :
                  LET r == ProbeResult(sku, first, second)
                  IN  /\ probe_log' = Append(probe_log, [sku |-> sku] @@ r)
                      /\ current_instock_skus' =
                           IF r.result = "IN_STOCK"
                             THEN current_instock_skus \cup { sku }
                             ELSE current_instock_skus
                      /\ current_oos_products' =
                           IF r.result = "OUT_OF_STOCK"
                             THEN Append(current_oos_products,
                                         [sku |-> sku, url |-> r.url])
                           ELSE IF r.result = "ERROR"
                             THEN Append(current_oos_products,
                                         [sku |-> ErrorSku(sku, r.kind),
                                          url |-> r.url])
                           ELSE current_oos_products
  /\ idx' = idx + 1
  /\ UNCHANGED << pc, sku_file, files, previous_oos_data, products_to_check,
                  analysis_report_lines, summary, io, start, src_out_stock,
                  src_previous, last_run >>

\* ------------------------------------------------------ 6. analyze results
\* {item['sku']: item['url'] for item in products if not item['sku'].endswith(")")}
RECURSIVE OosDict(_, _)
OosDict(data, products) ==
  IF products = <<>> THEN data
  ELSE LET item == Head(products)
       IN  OosDict(IF ~endswith(item.sku, CloseParen)
                     THEN (item.sku :> item.url) @@ data
                     ELSE data,
                   Tail(products))

current_oos_dict == OosDict(EmptyDict, current_oos_products)

current_oos_skus_set == DOMAIN current_oos_dict

previous_oos_skus_set == DOMAIN previous_oos_data

all_relevant_skus == previous_oos_skus_set \cup current_oos_skus_set

\* sorted(list(S)) for a set of strings.
RECURSIVE sorted(_)
sorted(S) ==
  IF S = {} THEN <<>>
  ELSE LET least == CHOOSE x \in S : \A y \in S \ { x } : StrLess(x, y)
       IN  << least >> \o sorted(S \ { least })

\* A line of the report, by what it says rather than by its characters.
Line(kind, sku, url, n) == [kind |-> kind, sku |-> sku, url |-> url, n |-> n]

Text(kind) == Line(kind, <<>>, <<>>, 0)

Count(kind, n) == Line(kind, <<>>, <<>>, n)

\* Variant: the STILL OOS test comes before the RESTOCKED test.
ClassifyOosFirst(acc, sku) ==
  LET in_previous == sku \in previous_oos_skus_set
      in_current_oos == sku \in current_oos_skus_set
      in_current_instock == sku \in current_instock_skus
  IN  IF in_previous /\ in_current_oos
        THEN [lines |-> Append(acc.lines,
                Line("STILL_OOS", sku, current_oos_dict[sku], 0)),
              summary |-> [acc.summary EXCEPT !.STILL_OOS = @ + 1]]
      ELSE IF in_previous /\ in_current_instock
        THEN [lines |-> Append(acc.lines,
                Line("RESTOCKED", sku, previous_oos_data[sku], 0)),
              summary |-> [acc.summary EXCEPT !.RESTOCKED = @ + 1]]
      ELSE IF ~in_previous /\ in_current_oos
        THEN [lines |-> Append(acc.lines,
                Line("NEWLY_OOS", sku, current_oos_dict[sku], 0)),
              summary |-> [acc.summary EXCEPT !.NEWLY_OOS = @ + 1]]
      ELSE IF in_previous /\ ~in_current_oos /\ ~in_current_instock
        THEN [lines |-> Append(acc.lines,
                Line("ERROR", sku, previous_oos_data[sku], 0)),
              summary |-> [acc.summary EXCEPT !.ERROR_PREV_OOS = @ + 1]]
      ELSE acc

\* Variant: the STILL OOS test is an "if" of its own, not an "elif".
ClassifyIfNotElif(acc, sku) ==
  LET in_previous == sku \in previous_oos_skus_set
      in_current_oos == sku \in current_oos_skus_set
      in_current_instock == sku \in current_instock_skus
      first ==
        IF in_previous /\ in_current_instock
          THEN [lines |-> Append(acc.lines,
                  Line("RESTOCKED", sku, previous_oos_data[sku], 0)),
                summary |-> [acc.summary EXCEPT !.RESTOCKED = @ + 1]]
          ELSE acc
  IN  IF in_previous /\ in_current_oos
        THEN [lines |-> Append(first.lines,
                Line("STILL_OOS", sku, current_oos_dict[sku], 0)),
              summary |-> [first.summary EXCEPT !.STILL_OOS = @ + 1]]
      ELSE IF ~in_previous /\ in_current_oos
        THEN [lines |-> Append(first.lines,
                Line("NEWLY_OOS", sku, current_oos_dict[sku], 0)),
              summary |-> [first.summary EXCEPT !.NEWLY_OOS = @ + 1]]
      ELSE IF in_previous /\ ~in_current_oos /\ ~in_current_instock
        THEN [lines |-> Append(first.lines,
                Line("ERROR", sku, previous_oos_data[sku], 0)),
              summary |-> [first.summary EXCEPT !.ERROR_PREV_OOS = @ + 1]]
      ELSE first
\* Variant: the last branch is taken only for a SKU whose probe failed.
ClassifyUnknownOnlyOnError(acc, sku) ==
  LET in_previous == sku \in previous_oos_skus_set
      in_current_oos == sku \in current_oos_skus_set
      in_current_instock == sku \in current_instock_skus
      errored == \E i \in 1..Len(current_oos_products) :
                   \E e \in ErrorKinds :
                     current_oos_products[i].sku = ErrorSku(sku, e)
  IN  IF in_previous /\ in_current_instock
        THEN [lines |-> Append(acc.lines,
                Line("RESTOCKED", sku, previous_oos_data[sku], 0)),
              summary |-> [acc.summary EXCEPT !.RESTOCKED = @ + 1]]
      ELSE IF in_previous /\ in_current_oos
        THEN [lines |-> Append(acc.lines,
                Line("STILL_OOS", sku, current_oos_dict[sku], 0)),
              summary |-> [acc.summary EXCEPT !.STILL_OOS = @ + 1]]
      ELSE IF ~in_previous /\ in_current_oos
        THEN [lines |-> Append(acc.lines,
                Line("NEWLY_OOS", sku, current_oos_dict[sku], 0)),
              summary |-> [acc.summary EXCEPT !.NEWLY_OOS = @ + 1]]
      ELSE IF in_previous /\ ~in_current_oos /\ ~in_current_instock /\ errored
        THEN [lines |-> Append(acc.lines,
                Line("ERROR", sku, previous_oos_data[sku], 0)),
              summary |-> [acc.summary EXCEPT !.ERROR_PREV_OOS = @ + 1]]
      ELSE acc

\* Variant: a SKU seen in stock during the run is never reported newly out
\* of stock.
ClassifyIgnoresInStock(acc, sku) ==
  LET in_previous == sku \in previous_oos_skus_set
      in_current_oos == sku \in current_oos_skus_set
      in_current_instock == sku \in current_instock_skus
  IN  IF in_previous /\ in_current_instock
        THEN [lines |-> Append(acc.lines,
                Line("RESTOCKED", sku, previous_oos_data[sku], 0)),
              summary |-> [acc.summary EXCEPT !.RESTOCKED = @ + 1]]
      ELSE IF in_previous /\ in_current_oos
        THEN [lines |-> Append(acc.lines,
                Line("STILL_OOS", sku, current_oos_dict[sku], 0)),
              summary |-> [acc.summary EXCEPT !.STILL_OOS = @ + 1]]
      ELSE IF ~in_previous /\ in_current_oos /\ ~in_current_instock
        THEN [lines |-> Append(acc.lines,
                Line("NEWLY_OOS", sku, current_oos_dict[sku], 0)),
              summary |-> [acc.summary EXCEPT !.NEWLY_OOS = @ + 1]]
      ELSE IF in_previous /\ ~in_current_oos /\ ~in_current_instock
        THEN [lines |-> Append(acc.lines,
                Line("ERROR", sku, previous_oos_data[sku], 0)),
              summary |-> [acc.summary EXCEPT !.ERROR_PREV_OOS = @ + 1]]
      ELSE acc


\* The if/elif chain of the loop body for one SKU: the report and the
\* counters after it.
Classify(acc, sku) ==
  LET in_previous == sku \in previous_oos_skus_set
      in_current_oos == sku \in current_oos_skus_set
      in_current_instock == sku \in current_instock_skus
  IN  IF in_previous /\ in_current_instock
        THEN [lines |-> Append(acc.lines,
                Line("RESTOCKED", sku, previous_oos_data[sku], 0)),
              summary |-> [acc.summary EXCEPT !.RESTOCKED = @ + 1]]
      ELSE IF in_previous /\ in_current_oos
        THEN [lines |-> Append(acc.lines,
                Line("STILL_OOS", sku, current_oos_dict[sku], 0)),
              summary |-> [acc.summary EXCEPT !.STILL_OOS = @ + 1]]
      ELSE IF ~in_previous /\ in_current_oos
        THEN [lines |-> Append(acc.lines,
                Line("NEWLY_OOS", sku, current_oos_dict[sku], 0)),
              summary |-> [acc.summary EXCEPT !.NEWLY_OOS = @ + 1]]
      ELSE IF in_previous /\ ~in_current_oos /\ ~in_current_instock
        THEN [lines |-> Append(acc.lines,
                Line("ERROR", sku, previous_oos_data[sku], 0)),
              summary |-> [acc.summary EXCEPT !.ERROR_PREV_OOS = @ + 1]]
      ELSE acc

RECURSIVE ClassifyAll(_, _)
ClassifyAll(acc, skus) ==
  IF skus = <<>> THEN acc
  ELSE ClassifyAll(Classify(acc, Head(skus)), Tail(skus))

\* The lines after the classification loop.
SummaryLines(sm, total) ==
  << Text("RULE"), Text("SUMMARY"), Count("Restocked", sm.RESTOCKED),
     Count("StillOutOfStock", sm.STILL_OOS),
     Count("NewlyOutOfStock", sm.NEWLY_OOS) >>
    \o (IF sm.ERROR_PREV_OOS > 0
          THEN << Count("ErrorsPrevOOS", sm.ERROR_PREV_OOS) >> ELSE <<>>)
    \o << Count("TotalCurrentlyOOS", total) >>

\* Step 6, entered when the checking loop has gone through every line.
Analyze ==
  /\ pc = "probe"
  /\ idx > Len(products_to_check)
  /\ LET header == << Text("HEADER"), Text("RULE") >>
         done == ClassifyAll([lines |-> header, summary |-> ZeroSummary],
                             sorted(all_relevant_skus))
     IN  IF all_relevant_skus = {}
           THEN /\ analysis_report_lines' = Append(header, Text("NONE"))
                /\ summary' = ZeroSummary
           ELSE /\ analysis_report_lines' =
                     done.lines
                       \o SummaryLines(done.summary, Len(current_oos_products))
                /\ summary' = done.summary
  /\ pc' = "rotate"
  /\ UNCHANGED << sku_file, files, previous_oos_data, products_to_check, idx,
                  current_oos_products, current_instock_skus, history >>

\* ------------------------------------------------- 7. update output files
\* Variant: the file is copied to the previous path and stays in place.
RotateFilesByCopy ==
  /\ pc = "rotate"
  /\ \/ /\ out_stock.exists
        /\ previous_out_stock' = out_stock
        /\ src_previous' = src_out_stock
        /\ UNCHANGED << out_stock, src_out_stock >>
        /\ io' = [io EXCEPT !.rotate = "ok"]
     \/ /\ ~out_stock.exists
        /\ UNCHANGED << out_stock, previous_out_stock, src_out_stock,
                        src_previous >>
        /\ io' = [io EXCEPT !.rotate = "notfound"]
     \/ /\ UNCHANGED << out_stock, previous_out_stock, src_out_stock,
                        src_previous >>
        /\ io' = [io EXCEPT !.rotate = "error"]
  /\ pc' = "write"
  /\ UNCHANGED << sku_file, stock_change_report, memory, probe_log, start,
                  last_run >>

\* Variant: with no file to move, the previous file is removed.
RotateFilesClearsPrevious ==
  /\ pc = "rotate"
  /\ \/ /\ out_stock.exists
        /\ previous_out_stock' = out_stock
        /\ out_stock' = NoFile
        /\ src_previous' = src_out_stock
        /\ src_out_stock' = NoSource
        /\ io' = [io EXCEPT !.rotate = "ok"]
     \/ /\ ~out_stock.exists
        /\ previous_out_stock' = NoFile
        /\ src_previous' = NoSource
        /\ UNCHANGED << out_stock, src_out_stock >>
        /\ io' = [io EXCEPT !.rotate = "notfound"]
     \/ /\ UNCHANGED << out_stock, previous_out_stock, src_out_stock,
                        src_previous >>
        /\ io' = [io EXCEPT !.rotate = "error"]
  /\ pc' = "write"
  /\ UNCHANGED << sku_file, stock_change_report, memory, probe_log, start,
                  last_run >>

\* os.replace(CURRENT_OOS_FILE_PATH, PREVIOUS_OOS_FILE_PATH) and its
\* handlers: the file is moved, there is none to move, or os.replace raises
\* another exception (with or without a file to move) and nothing is moved.
RotateFiles ==
  /\ pc = "rotate"
  /\ \/ /\ out_stock.exists
        /\ previous_out_stock' = out_stock
        /\ out_stock' = NoFile
        /\ src_previous' = src_out_stock
        /\ src_out_stock' = NoSource
        /\ io' = [io EXCEPT !.rotate = "ok"]
     \/ /\ ~out_stock.exists
        /\ UNCHANGED << out_stock, previous_out_stock, src_out_stock,
                        src_previous >>
        /\ io' = [io EXCEPT !.rotate = "notfound"]
     \/ /\ UNCHANGED << out_stock, previous_out_stock, src_out_stock,
                        src_previous >>
        /\ io' = [io EXCEPT !.rotate = "error"]
  /\ pc' = "write"
  /\ UNCHANGED << sku_file, stock_change_report, memory, probe_log, start,
                  last_run >>

\* The place of an item in a list sorted by SKU: after every item whose SKU
\* is not greater (list.sort is stable).
RECURSIVE Insert(_, _)
Insert(item, items) ==
  IF items = <<>> THEN << item >>
  ELSE IF StrLess(item.sku, Head(items).sku) THEN << item >> \o items
  ELSE << Head(items) >> \o Insert(item, Tail(items))

\* Variant: the list is written in the order of the probes.
Unsorted(items) == items

\* products.sort(key=lambda x: x['sku'])
RECURSIVE SortBySku(_)
SortBySku(items) ==
  IF items = <<>> THEN <<>>
  ELSE Insert(items[Len(items)], SortBySku(SubSeq(items, 1, Len(items) - 1)))

\* f"{item['sku']}\t{item['url']}\n", without the newline that ends the line.
SnapshotLine(item) == item.sku \o Tab \o item.url

SnapshotLines(items) == [i \in 1..Len(items) |-> SnapshotLine(items[i])]

\* What a write that fails after the file was opened leaves of the lines it
\* was given: a start of the text, that is some of the first lines,
\* followed or not by a start of the next line.
PartlyWritten(lines) ==
  { SubSeq(lines, 1, n) : n \in 0..Len(lines) }
    \cup UNION { { Append(SubSeq(lines, 1, n), SubSeq(lines[n + 1], 1, k)) :
                     k \in 1..(Len(lines[n + 1]) - 1) } :
                 n \in 0..(Len(lines) - 1) }

\* What is in a file when the process is stopped inside the with block that
\* writes it: the file was opened, so it exists; the lines written by then
\* are in it when the block closes the file on the way out
\* (KeyboardInterrupt), and none of them when the process is killed outright,
\* the text being shorter than the buffer.
Flushed(lines) == { SubSeq(lines, 1, n) : n \in 0..Len(lines) }

\* The observations of the run, as the probes gave them.
Observed ==
  [oos |-> { << probe_log[i].sku, probe_log[i].url >> :
               i \in { j \in 1..Len(probe_log) :
                         probe_log[j].result = "OUT_OF_STOCK" } },
   err |-> { << probe_log[i].sku, probe_log[i].kind, probe_log[i].url >> :
               i \in { j \in 1..Len(probe_log) :
                         probe_log[j].result = "ERROR" } }]

\* The try block that writes out_stock.txt: every line is written, the file
\* cannot be opened, or a write fails after the file was opened (and so
\* truncated) and leaves a start of the text.
WriteCurrent ==
  /\ pc = "write"
  /\ LET items == SortBySku(current_oos_products)
         lines == SnapshotLines(items)
     IN  \/ /\ out_stock' = File(lines)
            /\ current_oos_products' = items
            /\ src_out_stock' = Observed
            /\ io' = [io EXCEPT !.write = "ok"]
         \/ /\ UNCHANGED << out_stock, current_oos_products, src_out_stock >>
            /\ io' = [io EXCEPT !.write = "open_error"]
         \/ /\ lines # <<>>
            /\ \E part \in PartlyWritten(lines) : out_stock' = File(part)
            /\ current_oos_products' = items
            /\ src_out_stock' = Observed
            /\ io' = [io EXCEPT !.write = "write_error"]
  /\ pc' = "report"
  /\ UNCHANGED << sku_file, previous_out_stock, stock_change_report,
                  previous_oos_data, products_to_check, idx,
                  current_instock_skus, analysis_report_lines, summary,
                  probe_log, start, src_previous, last_run >>

\* The text of the lines of the report.
\* datetime.datetime.now().strftime("%Y-%m-%d %H:%M:%S"), for one reading of
\* the clock.
run_timestamp ==
  << "2", "0", "2", "6", "-", "0", "1", "-", "0", "1", " ", "0", "0", ":",
     "0", "0", ":", "0", "0" >>

DigitChars == << "0", "1", "2", "3", "4", "5", "6", "7", "8", "9" >>

\* str(n) for a natural number.
RECURSIVE Str(_)
Str(n) ==
  IF n < 10 THEN << DigitChars[n + 1] >>
  ELSE Str(n \div 10) \o << DigitChars[(n % 10) + 1] >>

\* f"{status:<15}"
ljust(text, width) ==
  text \o [i \in 1..(IF Len(text) < width THEN width - Len(text) ELSE 0) |-> " "]

\* The string appended to analysis_report_lines for a line of the report.
Render(line) ==
  CASE line.kind = "HEADER" ->
         << "A", "n", "a", "l", "y", "s", "i", "s", " ", "R", "e", "p",
            "o", "r", "t", " ", "-", " " >> \o run_timestamp
    [] line.kind = "RULE" -> [i \in 1..30 |-> "="]
    [] line.kind = "NONE" ->
         << "N", "o", " ", "o", "u", "t", "-", "o", "f", "-", "s", "t",
            "o", "c", "k", " ", "i", "t", "e", "m", "s", " ", "f", "o",
            "u", "n", "d", " ", "p", "r", "e", "v", "i", "o", "u", "s",
            "l", "y", " ", "o", "r", " ", "c", "u", "r", "r", "e", "n",
            "t", "l", "y", "." >>
    [] line.kind = "RESTOCKED" ->
         ljust(<< "[", "+", "]", " ", "R", "E", "S", "T", "O", "C", "K",
                  "E", "D" >>, 15)
           \o << ":", " " >> \o line.sku
           \o << " ", "(", "W", "a", "s", " ", "O", "O", "S", ":", " " >> \o line.url \o << ")" >>
    [] line.kind = "STILL_OOS" ->
         ljust(<< "[", "-", "]", " ", "S", "T", "I", "L", "L", " ", "O",
                  "O", "S" >>, 15)
           \o << ":", " " >> \o line.sku
           \o << " ", "(", "L", "i", "n", "k", ":", " " >> \o line.url \o << ")" >>
    [] line.kind = "NEWLY_OOS" ->
         ljust(<< "[", "!", "]", " ", "N", "E", "W", "L", "Y", " ", "O",
                  "O", "S" >>, 15)
           \o << ":", " " >> \o line.sku
           \o << " ", "(", "L", "i", "n", "k", ":", " " >> \o line.url \o << ")" >>
    [] line.kind = "ERROR" ->
         ljust(<< "[", "E", "]", " ", "E", "R", "R", "O", "R" >>, 15)
           \o << ":", " " >> \o line.sku
           \o << " ", "(", "W", "a", "s", " ", "O", "O", "S", ":", " " >> \o line.url
           \o << ")", " ", "-", " ", "C", "u", "r", "r", "e", "n", "t",
                 " ", "s", "t", "a", "t", "u", "s", " ", "u", "n", "k",
                 "n", "o", "w", "n", " ", "(", "c", "h", "e", "c", "k",
                 " ", "e", "r", "r", "o", "r", "?", ")" >>
    [] line.kind = "SUMMARY" -> << "S", "u", "m", "m", "a", "r", "y", ":" >>
    [] line.kind = "Restocked" ->
         << " ", " ", "R", "e", "s", "t", "o", "c", "k", "e", "d", ":",
            " ", " ", " ", " ", " ", " ", " ", " " >> \o Str(line.n)
    [] line.kind = "StillOutOfStock" ->
         << " ", " ", "S", "t", "i", "l", "l", " ", "O", "u", "t", "O",
            "f", "S", "t", "o", "c", "k", ":", " " >> \o Str(line.n)
    [] line.kind = "NewlyOutOfStock" ->
         << " ", " ", "N", "e", "w", "l", "y", " ", "O", "u", "t", "O",
            "f", "S", "t", "o", "c", "k", ":", " " >> \o Str(line.n)
    [] line.kind = "ErrorsPrevOOS" ->
         << " ", " ", "E", "r", "r", "o", "r", "s", " ", "(", "P", "r",
            "e", "v", " ", "O", "O", "S", ")", ":" >> \o Str(line.n)
    [] line.kind = "TotalCurrentlyOOS" ->
         << " ", " ", "T", "o", "t", "a", "l", " ", "C", "u", "r", "r",
            "e", "n", "t", "l", "y", " ", "O", "O", "S", " ", "(", "i",
            "n", "c", "l", " ", "e", "r", "r", "o", "r", "s", ")", ":",
            " " >>
           \o Str(line.n)

\* The lines report_file.write(line + "\n") is called with, without the
\* newline.
ReportText(lines) == [i \in 1..Len(lines) |-> Render(lines[i])]

\* Variant: the report is written only after a snapshot that was written.
WriteReportOnlyAfterSnapshot ==
  /\ pc = "report"
  /\ IF WRITE_CHANGE_REPORT_FILE /\ io.write = "ok" /\ io.rotate # "error"
       THEN \/ /\ stock_change_report' = File(ReportText(analysis_report_lines))
               /\ io' = [io EXCEPT !.report = "ok"]
            \/ /\ UNCHANGED stock_change_report
               /\ io' = [io EXCEPT !.report = "open_error"]
            \/ /\ \E part \in PartlyWritten(ReportText(analysis_report_lines)) :
                    stock_change_report' = File(part)
               /\ io' = [io EXCEPT !.report = "write_error"]
       ELSE UNCHANGED << stock_change_report, io >>
  /\ pc' = "done"
  /\ UNCHANGED << sku_file, out_stock, previous_out_stock, memory, probe_log,
                  start, src_out_stock, src_previous, last_run >>

\* The optional write of the change report, with the same three outcomes.
WriteReport ==
  /\ pc = "report"
  /\ IF WRITE_CHANGE_REPORT_FILE
       THEN \/ /\ stock_change_report' = File(ReportText(analysis_report_lines))
               /\ io' = [io EXCEPT !.report = "ok"]
            \/ /\ UNCHANGED stock_change_report
               /\ io' = [io EXCEPT !.report = "open_error"]
            \/ /\ \E part \in PartlyWritten(ReportText(analysis_report_lines)) :
                    stock_change_report' = File(part)
               /\ io' = [io EXCEPT !.report = "write_error"]
       ELSE UNCHANGED << stock_change_report, io >>
  /\ pc' = "done"
  /\ UNCHANGED << sku_file, out_stock, previous_out_stock, memory, probe_log,
                  start, src_out_stock, src_previous, last_run >>


\* The process is stopped (a signal, Ctrl-C, a power cut), at any point of
\* the run. No file operation is under way, or the stop falls inside one of
\* the two with blocks that write, after the file was opened. os.replace
\* moves the file or does not.
Kill ==
  /\ pc \in { "load", "read", "probe", "rotate", "write", "report" }
  /\ \/ UNCHANGED << files, src_out_stock >>
     \/ /\ pc = "write"
        /\ \E part \in Flushed(SnapshotLines(SortBySku(current_oos_products))) :
             out_stock' = File(part)
        /\ src_out_stock' = Observed
        /\ UNCHANGED << previous_out_stock, stock_change_report >>
     \/ /\ pc = "report"
        /\ WRITE_CHANGE_REPORT_FILE
        /\ \E part \in Flushed(ReportText(analysis_report_lines)) :
             stock_change_report' = File(part)
        /\ UNCHANGED << out_stock, previous_out_stock, src_out_stock >>
  /\ pc' = "killed"
  /\ UNCHANGED << sku_file, memory, probe_log, io, start, src_previous,
                  last_run >>

\* ------------------------------------------- the runs one after the other
\* One run of the script, every step with every outcome and a stop of the
\* process at any point, from each of the states that earlier runs leave
\* when the SKU "A" is tracked. (The clock reads run_timestamp in every
\* run.)
ItemA == [sku |-> << "A" >>, url |-> search_url(<< "A" >>)]

\* The item appended when the search request for "A" times out.
FailedA ==
  [sku |-> ErrorSku(<< "A" >>, << "T", "i", "m", "e", "o", "u", "t" >>),
   url |-> search_url(<< "A" >>)]

SeenA == [oos |-> { << ItemA.sku, ItemA.url >> }, err |-> {}]

\* analysis_report_lines of a run that loaded nothing and found "A" out of
\* stock.
NewlyOosReport ==
  << Text("HEADER"), Text("RULE"), Line("NEWLY_OOS", ItemA.sku, ItemA.url, 0) >>
    \o SummaryLines([ZeroSummary EXCEPT !.NEWLY_OOS = 1], 1)

\* analysis_report_lines of a run that loaded nothing and found nothing out
\* of stock.
NothingReport == << Text("HEADER"), Text("RULE"), Text("NONE") >>

\* The first run found "A" out of stock, without a failed file operation.
AfterFirstRun ==
  [out_stock |-> File(SnapshotLines(<< ItemA >>)),
   previous_out_stock |-> NoFile,
   stock_change_report |-> File(ReportText(NewlyOosReport)),
   src_out_stock |-> SeenA,
   src_previous |-> NoSource,
   last_run |-> [clean |-> TRUE, moved |-> NoFile]]

\* A second such run: it loaded nothing (previous_out_stock.txt did not
\* exist yet), moved the snapshot of the first run and wrote its own.
AfterSecondRun ==
  [out_stock |-> File(SnapshotLines(<< ItemA >>)),
   previous_out_stock |-> File(SnapshotLines(<< ItemA >>)),
   stock_change_report |-> File(ReportText(NewlyOosReport)),
   src_out_stock |-> SeenA,
   src_previous |-> SeenA,
   last_run |-> [clean |-> TRUE, moved |-> NoFile]]

\* The request of the first run for "A" timed out; the second run, without
\* a failed file operation, found "A" in stock: it moved the snapshot of the
\* first run and wrote an empty one.
AfterFailedProbe ==
  [out_stock |-> File(<<>>),
   previous_out_stock |-> File(SnapshotLines(<< FailedA >>)),
   stock_change_report |-> File(ReportText(NothingReport)),
   src_out_stock |-> NoSource,
   src_previous |->
     [oos |-> {},
      err |-> { << << "A" >>, << "T", "i", "m", "e", "o", "u", "t" >>,
                   search_url(<< "A" >>) >> }],
   last_run |-> [clean |-> TRUE, moved |-> NoFile]]

\* After AfterFirstRun, a run over an empty SKUs.txt was stopped once it had
\* moved the snapshot, before it opened out_stock.txt.
KilledBeforeOpen ==
  [out_stock |-> NoFile,
   previous_out_stock |-> File(SnapshotLines(<< ItemA >>)),
   stock_change_report |-> File(ReportText(NewlyOosReport)),
   src_out_stock |-> NoSource,
   src_previous |-> SeenA,
   last_run |-> [clean |-> FALSE, moved |-> File(SnapshotLines(<< ItemA >>))]]

\* The same run, stopped inside the with block that writes out_stock.txt.
KilledInWrite ==
  [out_stock |-> File(<<>>),
   previous_out_stock |-> File(SnapshotLines(<< ItemA >>)),
   stock_change_report |-> File(ReportText(NewlyOosReport)),
   src_out_stock |-> NoSource,
   src_previous |-> SeenA,
   last_run |-> [clean |-> FALSE, moved |-> File(SnapshotLines(<< ItemA >>))]]

EarlierRuns ==
  { AfterFirstRun, AfterSecondRun, AfterFailedProbe, KilledBeforeOpen,
    KilledInWrite }

Init ==
  /\ sku_file \in TrackedSkuFiles
  /\ pc = "load"
  /\ \E left \in EarlierRuns :
       /\ out_stock = left.out_stock
       /\ previous_out_stock = left.previous_out_stock
       /\ stock_change_report = left.stock_change_report
       /\ src_out_stock = left.src_out_stock
       /\ src_previous = left.src_previous
       /\ last_run = left.last_run
  /\ FreshMemory
  /\ probe_log = <<>>
  /\ io = NoIo
  /\ start = files

Next ==
  \/ LoadPrevious
  \/ ReadSkus
  \/ ReadSkusMissing
  \/ ReadSkusUnreadable
  \/ Probe
  \/ Analyze
  \/ RotateFiles
  \/ WriteCurrent
  \/ WriteReport
  \/ Kill

Spec == Init /\ [][Next]_vars

\* ------------------------------------------------- one run, any SKUs.txt
\* The first run after installation, for every SKUs.txt of up to MaxLines
\* lines: repeated lines, blank lines, an identifier that ends in ")". The
\* run is followed from its start to the write of its snapshot; the step
\* that remains, WriteReport, changes stock_change_report.txt only.
InitRun ==
  /\ sku_file \in SkuFiles
  /\ Installed

NextRun ==
  \/ LoadPrevious
  \/ ReadSkus
  \/ ReadSkusMissing
  \/ ReadSkusUnreadable
  \/ Probe
  \/ Analyze
  \/ RotateFiles
  \/ WriteCurrent

SpecRun == InitRun /\ [][NextRun]_vars

\* ------------------------------------- one run, every failure of the disk
\* One run over a list of at most one SKU, with every outcome of every file
\* operation, a write cut short at any character included, and a stop of the
\* process at any point. The run starts
\* from a fresh installation or with snapshots that earlier runs wrote.
EarlierItems ==
  << [sku |-> << "A" >>, url |-> LinkUrl(<< "/", "p" >>)],
     [sku |-> << "B", ")" >>, url |-> search_url(<< "B", ")" >>)] >>

\* No snapshot, or the snapshot of a run that found these items out of
\* stock.
EarlierSnapshots ==
  { [file |-> NoFile, src |-> NoSource],
    [file |-> File(SnapshotLines(EarlierItems)),
     src |-> [oos |-> { << EarlierItems[i].sku, EarlierItems[i].url >> :
                          i \in 1..Len(EarlierItems) },
              err |-> {}]] }

InitDisk ==
  /\ sku_file \in TrackedSkuFiles
  /\ pc = "load"
  /\ \E current \in EarlierSnapshots, previous \in EarlierSnapshots :
       /\ out_stock = current.file
       /\ src_out_stock = current.src
       /\ previous_out_stock = previous.file
       /\ src_previous = previous.src
  /\ stock_change_report = NoFile
  /\ FreshMemory
  /\ probe_log = <<>>
  /\ io = NoIo
  /\ start = << out_stock, previous_out_stock, NoFile >>
  /\ last_run = [clean |-> FALSE, moved |-> NoFile]

NextDisk ==
  \/ LoadPrevious
  \/ ReadSkus
  \/ ReadSkusMissing
  \/ ReadSkusUnreadable
  \/ Probe
  \/ Analyze
  \/ RotateFiles
  \/ WriteCurrent
  \/ WriteReport
  \/ Kill

SpecDisk == InitDisk /\ [][NextDisk]_vars

\* ------------------------------------------- the analysis, for any inputs
\* Step 6 as a function of what it reads: the loaded dictionary, the set of
\* SKUs in stock and the list of out-of-stock items, each drawn from every
\* value of its kind over three SKUs.
EngineSkus == { << "A" >>, << "B" >>, << "C" >> }

\* URLs a loaded line can carry: none, or the product page.
PreviousUrls == { NA, LinkUrl(<< "/", "p" >>) }

PreviousDicts == UNION { [S -> PreviousUrls] : S \in SUBSET EngineSkus }

\* What the checking loop appends for a SKU: the confirmed item, or the
\* item of the except branch.
EngineItems ==
  { [sku |-> k, url |-> search_url(k)] : k \in EngineSkus }
    \cup { [sku |-> ErrorSku(k, e), url |-> search_url(k)] :
             k \in EngineSkus, e \in ErrorKinds }

InitEngine ==
  /\ pc = "probe"
  /\ sku_file = File(<<>>)
  /\ out_stock = NoFile
  /\ previous_out_stock = NoFile
  /\ stock_change_report = NoFile
  /\ previous_oos_data \in PreviousDicts
  /\ products_to_check = <<>>
  /\ idx = 1
  /\ current_oos_products \in SeqsUpTo(EngineItems, MaxLines)
  /\ current_instock_skus \in SUBSET EngineSkus
  /\ analysis_report_lines = <<>>
  /\ summary = ZeroSummary
  /\ probe_log = <<>>
  /\ io = NoIo
  /\ start = << NoFile, NoFile, NoFile >>
  /\ src_out_stock = NoSource
  /\ src_previous = NoSource
  /\ last_run = [clean |-> FALSE, moved |-> NoFile]

NextEngine == Analyze

SpecEngine == InitEngine /\ [][NextEngine]_vars

\* ================================================================== claims
Range(q) == { q[i] : i \in 1..Len(q) }

MapPairs(f) == { << k, f[k] >> : k \in DOMAIN f }

\* The analysis of the run is over (and its inputs are still in memory).
Analyzed == analysis_report_lines # <<>>

\* The SKUs the input list asks for.
Requested == { strip(l) : l \in Range(products_to_check) } \ { <<>> }

\* The SKUs whose probe failed in this run.
Errored ==
  { probe_log[i].sku :
      i \in { j \in 1..Len(probe_log) : probe_log[j].result = "ERROR" } }

ProbesOf(sku) == { i \in 1..Len(probe_log) : probe_log[i].sku = sku }

StatusKinds == { "RESTOCKED", "STILL_OOS", "NEWLY_OOS", "ERROR" }

IsStatus(line) == line.kind \in StatusKinds

StatusLines == SelectSeq(analysis_report_lines, IsStatus)

LinesFor(sku) ==
  { i \in 1..Len(StatusLines) : StatusLines[i].sku = sku }

\* The line a run persists for a SKU whose probe failed.
ErrorLine(e) == SnapshotLine([sku |-> ErrorSku(e[1], e[2]), url |-> e[3]])

\* C1: of two consecutive runs without a failed file operation, the second
\* loads exactly the confirmed (non-error) records the first wrote to the
\* current snapshot.
C1_LoadsWhatLastRunWrote ==
  (pc = "read" /\ last_run.clean /\ io.load \in { "ok", "notfound" })
    => MapPairs(previous_oos_data) = src_out_stock.oos

\* C2: a line persisted for a SKU whose probe failed adds no entry to the
\* dictionary of a later run that loads the file holding it.
C2_ErrorLineNotLoaded ==
  (pc = "read" /\ io.load = "ok")
    => \A e \in src_previous.err :
         ErrorLine(e) \in Range(previous_out_stock.lines)
           => LET entry == LoadLine(EmptyDict, ErrorLine(e))
              IN  \A k \in DOMAIN entry :
                    ~(k \in DOMAIN previous_oos_data
                        /\ previous_oos_data[k] = entry[k])

\* C3: once the write of the new current snapshot has begun over a current
\* snapshot that existed when the run started, the previous-snapshot file
\* holds what the current snapshot held at the start of the run, whatever
\* the outcome of the rotation.
C3_RotatedBeforeRewritten ==
  (io.write \in { "ok", "write_error" } /\ start[1].exists)
    => previous_out_stock = start[1]

\* C4: after the checking loop the in-stock set and the confirmed-OOS keys
\* are disjoint, every requested SKU is in exactly one of in-stock,
\* confirmed-OOS and errored, and every requested SKU was probed once.
C4_OneOutcomePerSku ==
  Analyzed
    => /\ current_instock_skus \cap current_oos_skus_set = {}
       /\ \A k \in Requested :
            /\ Cardinality({ c \in { "in", "oos", "err" } :
                 \/ c = "in" /\ k \in current_instock_skus
                 \/ c = "oos" /\ k \in current_oos_skus_set
                 \/ c = "err" /\ k \in Errored }) = 1
            /\ Cardinality(ProbesOf(k)) = 1

\* C5: every SKU of the previous snapshot or of the confirmed-OOS map is
\* classified by the first rule that matches (RESTOCKED, STILL OOS, NEWLY
\* OOS, status unknown), with the URL the rule names, and each counter is
\* the number of SKUs of its category.
C5_FirstMatchClassification ==
  pc = "rotate"
    => LET prev == DOMAIN previous_oos_data
           oos == DOMAIN current_oos_dict
           restocked == prev \cap current_instock_skus
           still == (prev \ current_instock_skus) \cap oos
           newly == oos \ prev
           unknown == prev \ (current_instock_skus \cup oos)
           expected ==
             { Line("RESTOCKED", k, previous_oos_data[k], 0) : k \in restocked }
               \cup { Line("STILL_OOS", k, current_oos_dict[k], 0) : k \in still }
               \cup { Line("NEWLY_OOS", k, current_oos_dict[k], 0) : k \in newly }
               \cup { Line("ERROR", k, previous_oos_data[k], 0) : k \in unknown }
       IN  /\ Range(StatusLines) = expected
           /\ Len(StatusLines) = Cardinality(expected)
           /\ summary.RESTOCKED = Cardinality(restocked)
           /\ summary.STILL_OOS = Cardinality(still)
           /\ summary.NEWLY_OOS = Cardinality(newly)
           /\ summary.ERROR_PREV_OOS = Cardinality(unknown)

\* The scenario of the specification: previous {A, B}, A in stock, B and C
\* confirmed out of stock, classified 1 / 1 / 1.
C5_Witness ==
  /\ pc = "rotate"
  /\ DOMAIN previous_oos_data = { << "A" >>, << "B" >> }
  /\ current_instock_skus = { << "A" >> }
  /\ DOMAIN current_oos_dict = { << "B" >>, << "C" >> }
  /\ summary = [RESTOCKED |-> 1, STILL_OOS |-> 1, NEWLY_OOS |-> 1,
                ERROR_PREV_OOS |-> 0]

\* C6: the "Total Currently OOS" figure of the report is the number of
\* confirmed-OOS SKUs plus the number of SKUs whose probe failed.
C6_TotalIsConfirmedPlusErrored ==
  \A line \in Range(analysis_report_lines) :
    line.kind = "TotalCurrentlyOOS"
      => line.n = Cardinality(current_oos_skus_set) + Cardinality(Errored)

\* C7: a SKU is reported RESTOCKED or STILL OOS only if its probe returned
\* OUT_OF_STOCK in the run that wrote the snapshot that was loaded.
C7_NoPoisoning ==
  pc = "rotate"
    => \A line \in Range(analysis_report_lines) :
         line.kind \in { "RESTOCKED", "STILL_OOS" }
           => \E seen \in src_previous.oos : seen[1] = line.sku

\* C8: every relevant SKU has at most one classification line, of one
\* category, and the four counters add up to the number of relevant SKUs
\* minus the number of those without a line.
C8_ExhaustiveAndExclusive ==
  pc = "rotate"
    => LET noLine == { k \in all_relevant_skus : LinesFor(k) = {} }
       IN  /\ \A k \in all_relevant_skus : Cardinality(LinesFor(k)) <= 1
           /\ \A i \in 1..Len(StatusLines) :
                StatusLines[i].sku \in all_relevant_skus
           /\ summary.RESTOCKED + summary.STILL_OOS + summary.NEWLY_OOS
                + summary.ERROR_PREV_OOS
                = Cardinality(all_relevant_skus) - Cardinality(noLine)

\* A SKU of the previous snapshot that is both in the in-stock set and in
\* the confirmed-OOS map has been classified.
C8_Witness ==
  /\ pc = "rotate"
  /\ \E k \in DOMAIN previous_oos_data :
       k \in current_instock_skus /\ k \in current_oos_skus_set

\* C9: a run stopped after its rotation moved the current snapshot and
\* before its snapshot is written leaves that content in the
\* previous-snapshot file and no current snapshot; the next run starts from
\* exactly that, loads that
\* content (when the file can be read), moves no file in its rotation and
\* leaves the previous file alone, and its write produces the new current
\* snapshot.
C9_KilledBetweenRotationAndWrite ==
  /\ (pc = "killed" /\ io.rotate = "ok" /\ io.write = "-")
       => (previous_out_stock = start[1] /\ ~out_stock.exists)
  /\ last_run.moved.exists
       => /\ start[2] = last_run.moved
          /\ ~start[1].exists
          /\ io.load = "ok"
               => previous_oos_data = LoadLines(EmptyDict, last_run.moved.lines)
          /\ io.rotate # "ok"
          /\ pc \in { "read", "probe", "rotate" } => ~out_stock.exists
          /\ previous_out_stock = last_run.moved
          /\ io.write = "ok"
               => out_stock = File(SnapshotLines(current_oos_products))

\* C10: when SKUs.txt is missing the run ends at once: no probe, no
\* rotation, no write, and the three output files are as the run found them.
C10_MissingInputChangesNothing ==
  pc = "exited"
    => /\ probe_log = <<>>
       /\ current_oos_products = <<>>
       /\ analysis_report_lines = <<>>
       /\ io.rotate = "-" /\ io.write = "-" /\ io.report = "-"
       /\ files = start

\* A run has ended for want of SKUs.txt with all three output files there.
C10_Witness ==
  /\ pc = "exited"
  /\ out_stock.exists /\ out_stock.lines # <<>>
  /\ previous_out_stock.exists /\ previous_out_stock.lines # <<>>
  /\ stock_change_report.exists

\* The probes of the run that failed.
FailedProbes == { p \in Range(probe_log) : p.result = "ERROR" }

\* C11: for every SKU whose probe failed, the snapshot the run wrote has
\* the line tagged with the error and carrying the URL known at the failure,
\* and the SKU is not a key of the confirmed-OOS map of the run.
C11_ErroredPersistedNotConfirmed ==
  io.write = "ok"
    => \A p \in FailedProbes :
         /\ ErrorLine(<< p.sku, p.kind, p.url >>) \in Range(out_stock.lines)
         /\ p.sku \notin current_oos_skus_set

\* The non-blank SKUs of a list of lines, in the order of the lines.
RECURSIVE SkusOf(_)
SkusOf(lines) ==
  IF lines = <<>> THEN <<>>
  ELSE (IF strip(Head(lines)) = <<>> THEN <<>> ELSE << strip(Head(lines)) >>)
         \o SkusOf(Tail(lines))

ProbedSkus == [i \in 1..Len(probe_log) |-> probe_log[i].sku]

\* The run has ended before its analysis.
EndedEarly == pc \in { "exited", "crashed" }

\* The script, left to itself, takes its next step.
RunStep ==
  \/ LoadPrevious
  \/ ReadSkus
  \/ ReadSkusMissing
  \/ ReadSkusUnreadable
  \/ Probe
  \/ Analyze
  \/ RotateFiles
  \/ WriteCurrent
  \/ WriteReport

\* C12: whichever probes fail, every non-blank SKU of the list is probed, in
\* the order of the list, and the run goes on to the classification, the
\* rotation and the write of the snapshot; a run ends early only when
\* SKUs.txt is missing.
C12_ProbeFailuresIsolated ==
  /\ pc = "probe" => ProbedSkus = SkusOf(SubSeq(products_to_check, 1, idx - 1))
  /\ Analyzed => ProbedSkus = SkusOf(products_to_check)
  /\ pc \in { "report", "done" }
       => /\ analysis_report_lines # <<>>
          /\ io.rotate # "-"
          /\ io.write # "-"
  /\ EndedEarly => ~sku_file.exists
  /\ (pc # "done" /\ ~EndedEarly) => ENABLED RunStep

\* C13: a failed rotation or a failed write of the snapshot does not keep the
\* run from writing the report (when the report is enabled) and from reaching
\* its end; a failed write of the report leaves the snapshot that was written
\* as it was written.
C13_ArtifactFailuresIndependent ==
  /\ pc = "write" => ENABLED WriteCurrent
  /\ pc = "report" => ENABLED WriteReport
  /\ (pc = "done" /\ WRITE_CHANGE_REPORT_FILE) => io.report # "-"
  /\ io.report = "ok"
       => stock_change_report = File(ReportText(analysis_report_lines))
  /\ (pc = "done" /\ io.write = "ok")
       => out_stock = File(SnapshotLines(current_oos_products))

\* A run has ended whose rotation failed and whose snapshot could not be
\* written, with the report of the run on disk.
C13_Witness ==
  /\ pc = "done"
  /\ io.rotate = "error"
  /\ io.write = "write_error"
  /\ io.report = "ok"
  /\ Len(analysis_report_lines) > 3
  /\ stock_change_report = File(ReportText(analysis_report_lines))

\* C14: when the write of the snapshot fails, out_stock.txt holds after the
\* run what it held before the run (the same lines, or no file).
C14_FailedWriteLeavesSnapshot ==
  (pc = "done" /\ io.write \in { "open_error", "write_error" })
    => out_stock = start[1]

\* The entries a run accumulates as out of stock: one for each probe that
\* found no stock and one, tagged with the error, for each probe that failed.
Accumulated ==
  LET kept == SelectSeq(probe_log, LAMBDA p : p.result # "IN_STOCK")
  IN  [i \in 1..Len(kept) |->
         [sku |-> IF kept[i].result = "ERROR"
                    THEN ErrorSku(kept[i].sku, kept[i].kind)
                    ELSE kept[i].sku,
          url |-> kept[i].url]]

\* How many times x occurs in the sequence s.
Occurrences(x, s) == Cardinality({ i \in 1..Len(s) : s[i] = x })

\* C15: the snapshot a run writes has its lines in ascending order of SKU,
\* whatever the order of the probes and the mix of confirmed and errored
\* entries, and holds exactly the entries accumulated during the run.
C15_SnapshotSortedAndComplete ==
  io.write = "ok"
    => /\ out_stock.exists
       /\ Len(out_stock.lines) = Len(Accumulated)
       /\ \A i \in 1..Len(Accumulated) :
            Occurrences(SnapshotLine(Accumulated[i]), out_stock.lines)
              = Occurrences(Accumulated[i], Accumulated)
       /\ \A i \in 1..Len(out_stock.lines) :
            /\ out_stock.lines[i] = SnapshotLine(current_oos_products[i])
            /\ \A j \in 1..Len(out_stock.lines) :
                 i < j => ~StrLess(current_oos_products[j].sku,
                                   current_oos_products[i].sku)

\* A snapshot of three lines was written after probes that were not in
\* ascending order of SKU and that mixed confirmed and errored entries.
C15_Witness ==
  /\ io.write = "ok"
  /\ Len(out_stock.lines) = 3
  /\ StrLess(probe_log[2].sku, probe_log[1].sku)
  /\ probe_log[1].result = "OUT_OF_STOCK"
  /\ probe_log[2].result = "ERROR"
  /\ probe_log[3].result = "OUT_OF_STOCK"
  /\ Accumulated # current_oos_products

\* C16: a rotation that finds no out_stock.txt changes nothing, and the
\* absence of the file is not an error: FileNotFoundError is handled apart
\* from the failures of os.replace, previous_out_stock.txt is as it was at
\* the start of the run, a file with its lines or no file, and the run goes
\* on to write the new snapshot.
C16_RotationWithoutCurrentIsNoOp ==
  /\ (pc = "rotate" /\ ~out_stock.exists)
       => ENABLED (RotateFiles /\ io'.rotate = "notfound")
  /\ io.rotate = "notfound" => ~start[1].exists
  /\ (~start[1].exists /\ io.rotate # "-")
       => /\ io.rotate # "ok"
          /\ previous_out_stock = start[2]
          /\ pc = "write" => (~out_stock.exists /\ ENABLED WriteCurrent)
          /\ io.write = "ok"
               => out_stock = File(SnapshotLines(current_oos_products))

\* A run that started with a previous snapshot and no current one has
\* rotated and written its snapshot; the previous snapshot is untouched.
C16_Witness ==
  /\ pc = "done"
  /\ io.rotate = "notfound"
  /\ io.write = "ok"
  /\ start[2].exists
  /\ start[2].lines # <<>>
  /\ previous_out_stock = start[2]
  /\ out_stock.lines # <<>>

\* The SKUs for which the run accumulated an entry tagged with an error.
ErroredInRun ==
  { k \in EngineSkus :
      \E i \in 1..Len(current_oos_products) :
        \E e \in ErrorKinds : current_oos_products[i].sku = ErrorSku(k, e) }

\* The SKUs the run has neither an in-stock nor an out-of-stock entry for.
AbsentFromRun ==
  { k \in EngineSkus :
      /\ k \notin current_instock_skus
      /\ \A i \in 1..Len(current_oos_products) :
           /\ current_oos_products[i].sku # k
           /\ \A e \in ErrorKinds :
                current_oos_products[i].sku # ErrorSku(k, e) }

\* C17: a SKU of the loaded previous snapshot that the run confirmed neither
\* in stock nor out of stock is reported as "status unknown" with the URL of
\* the previous snapshot, whether its probe failed or it is no longer in the
\* list.
C17_UnknownWithPreviousUrl ==
  pc = "rotate"
    => \A k \in DOMAIN previous_oos_data :
         (k \notin current_instock_skus /\ k \notin current_oos_skus_set)
           => /\ Line("ERROR", k, previous_oos_data[k], 0)
                   \in Range(StatusLines)
              /\ Cardinality(LinesFor(k)) = 1

\* The report has a "status unknown" line for a previously out-of-stock SKU
\* whose probe failed and one for a previously out-of-stock SKU that the run
\* did not probe at all.
C17_Witness ==
  /\ pc = "rotate"
  /\ \E a \in DOMAIN previous_oos_data \cap ErroredInRun :
       \E b \in DOMAIN previous_oos_data \cap AbsentFromRun :
         /\ a \notin current_instock_skus
         /\ a \notin current_oos_skus_set
         /\ previous_oos_data[a] # NA
         /\ Line("ERROR", a, previous_oos_data[a], 0) \in Range(StatusLines)
         /\ Line("ERROR", b, previous_oos_data[b], 0) \in Range(StatusLines)

\* C18: every SKU whose probe completed without an error and found no stock
\* is a key of the confirmed-OOS map, whatever its text, and is reported as
\* still or newly out of stock; only SKUs whose probe failed are left out.
C18_ConfirmedOosIsKey ==
  Analyzed
    => \A p \in Range(probe_log) :
         p.result = "OUT_OF_STOCK"
           => /\ p.sku \in current_oos_skus_set
              /\ \E i \in LinesFor(p.sku) :
                   StatusLines[i].kind \in { "STILL_OOS", "NEWLY_OOS" }

\* C19: every SKU of the union of the previous and the confirmed-OOS keys
\* has exactly one classification line in the report; the four counters add
\* up to the size of the union, and so does the number of classification
\* lines.
C19_OneLinePerRelevantSku ==
  pc = "rotate"
    => /\ \A k \in all_relevant_skus : Cardinality(LinesFor(k)) = 1
       /\ summary.RESTOCKED + summary.STILL_OOS + summary.NEWLY_OOS
            + summary.ERROR_PREV_OOS = Cardinality(all_relevant_skus)
       /\ Len(StatusLines) = Cardinality(all_relevant_skus)

\* Three SKUs are relevant, one of each of three kinds, among them a SKU
\* that is new, confirmed out of stock and also seen in stock.
C19_Witness ==
  /\ pc = "rotate"
  /\ Cardinality(all_relevant_skus) = 3
  /\ Len(StatusLines) = 3
  /\ summary.NEWLY_OOS = 1
  /\ summary.ERROR_PREV_OOS = 1
  /\ summary.RESTOCKED = 1
  /\ \E k \in current_oos_skus_set \cap current_instock_skus :
       k \notin DOMAIN previous_oos_data

====
